---- MODULE Spec2Model ----
(***************************************************************************)
(* Model of the sensor-log importer (src/import_data.py): the JSON line    *)
(* parser parse_sensor_record, the batching loop of import_data, the       *)
(* transactional sink behind psycopg2 (execute_batch / commit / rollback), *)
(* the post-import statistics and the process wiring of main.              *)
(***************************************************************************)
EXTENDS Integers, Sequences, FiniteSets, TLC

(***************************************************************************)
(* Bounds of the model.                                                    *)
(***************************************************************************)
MaxLines == 3
MaxBatch == 2

(***************************************************************************)
(* Python / JSON values.  Every value carries its type tag, so that the    *)
(* type errors of the dynamic accesses can be modelled.  A dict is the     *)
(* sequence of its <<key, value>> pairs in document order.                 *)
(***************************************************************************)
None == [t |-> "null"]
Num(n) == [t |-> "num", v |-> n]
Str(s) == [t |-> "str", v |-> s]
Bool(b) == [t |-> "bool", v |-> b]
List(s) == [t |-> "list", v |-> s]
Dict(s) == [t |-> "dict", v |-> s]
EmptyDict == Dict(<<>>)

\* dict.get(key, default); the caller has checked that d is a dict
HasKey(d, k) == \E i \in 1..Len(d.v) : d.v[i][1] = k

LastIndex(d, k) == CHOOSE i \in 1..Len(d.v) :
                      /\ d.v[i][1] = k
                      /\ \A j \in (i+1)..Len(d.v) : d.v[j][1] # k

\* variant: a missing key read with the default None yields the number 0
get_zero(d, k, default) ==
    IF HasKey(d, k) THEN d.v[LastIndex(d, k)][2]
    ELSE IF default = None THEN Num(0) ELSE default

get(d, k, default) == IF HasKey(d, k) THEN d.v[LastIndex(d, k)][2] ELSE default

\* Python truth value of a value (the test "if not timestamp")
Truthy(x) == CASE x.t = "null" -> FALSE
               [] x.t = "num"  -> x.v # 0
               [] x.t = "bool" -> x.v
               [] x.t = "str"  -> x.v # ""
               [] x.t = "list" -> Len(x.v) > 0
               [] x.t = "dict" -> Len(x.v) > 0

RECURSIVE dumps(_)
RECURSIVE dumpsItems(_, _)
RECURSIVE dumpsPairs(_, _)
\* json.dumps with the default separators
dumps(x) == CASE x.t = "null" -> "null"
              [] x.t = "num"  -> ToString(x.v)
              [] x.t = "bool" -> (IF x.v THEN "true" ELSE "false")
              [] x.t = "str"  -> "\"" \o x.v \o "\""
              [] x.t = "list" -> "[" \o dumpsItems(x.v, 1) \o "]"
              [] x.t = "dict" -> "{" \o dumpsPairs(x.v, 1) \o "}"

dumpsItems(s, i) == IF i > Len(s) THEN ""
                    ELSE dumps(s[i]) \o (IF i < Len(s) THEN ", " ELSE "")
                         \o dumpsItems(s, i + 1)

dumpsPairs(s, i) == IF i > Len(s) THEN ""
                    ELSE "\"" \o s[i][1] \o "\": " \o dumps(s[i][2])
                         \o (IF i < Len(s) THEN ", " ELSE "")
                         \o dumpsPairs(s, i + 1)

(***************************************************************************)
(* datetime.fromtimestamp(ms / 1000).isoformat(), with the process in UTC. *)
(***************************************************************************)
Pad2(n) == IF n < 10 THEN "0" \o ToString(n) ELSE ToString(n)

Pad4(n) == IF n < 10 THEN "000" \o ToString(n)
           ELSE IF n < 100 THEN "00" \o ToString(n)
           ELSE IF n < 1000 THEN "0" \o ToString(n)
           ELSE ToString(n)

Pad6(n) == IF n < 10 THEN "00000" \o ToString(n)
           ELSE IF n < 100 THEN "0000" \o ToString(n)
           ELSE IF n < 1000 THEN "000" \o ToString(n)
           ELSE IF n < 10000 THEN "00" \o ToString(n)
           ELSE IF n < 100000 THEN "0" \o ToString(n)
           ELSE ToString(n)

\* the proleptic Gregorian date of a day number counted from 1970-01-01
CivilDate(days) ==
    LET z   == days + 719468
        era == z \div 146097
        doe == z - era * 146097
        yoe == (doe - doe \div 1460 + doe \div 36524 - doe \div 146096) \div 365
        doy == doe - (365 * yoe + yoe \div 4 - yoe \div 100)
        mp  == (5 * doy + 2) \div 153
        d   == doy - (153 * mp + 2) \div 5 + 1
        m   == IF mp < 10 THEN mp + 3 ELSE mp - 9
        y   == yoe + era * 400 + (IF m <= 2 THEN 1 ELSE 0)
    IN  [year |-> y, month |-> m, day |-> d]

isoformat(ms) ==
    LET secs  == ms \div 1000
        micro == (ms % 1000) * 1000
        date  == CivilDate(secs \div 86400)
        sod   == secs % 86400
    IN  Pad4(date.year) \o "-" \o Pad2(date.month) \o "-" \o Pad2(date.day)
        \o "T" \o Pad2(sod \div 3600) \o ":" \o Pad2((sod % 3600) \div 60)
        \o ":" \o Pad2(sod % 60)
        \o (IF micro # 0 THEN "." \o Pad6(micro) ELSE "")

(***************************************************************************)
(* Input lines.  A line is blank, text that is not JSON, or the text of a  *)
(* JSON document; json.loads of the last yields the document.              *)
(***************************************************************************)
Blank == [text |-> "blank"]
Garbage == [text |-> "garbage"]
Json(doc) == [text |-> "json", doc |-> doc]

\* variant: every line counts as non-blank
strip_never_blank(line) == TRUE

\* line.strip() is non-empty
strip(line) == line.text # "blank"

GatewayDoc == Dict(<< <<"gatewayID", Str("gw1")>>,
                      <<"rssi", Num(-90)>>,
                      <<"loRaSNR", Num(7)>>,
                      <<"location", Dict(<< <<"latitude", Num(45)>>,
                                            <<"longitude", Num(5)>>,
                                            <<"altitude", Num(212)>> >>)>> >>)

GoodLine == Json(Dict(<< <<"_date", Str("2024-01-01T00:00:00")>>,
                         <<"deviceName", Str("d1")>>,
                         <<"rxInfo", List(<<GatewayDoc>>)>>,
                         <<"object", Dict(<< <<"temperature", Num(21)>> >>)>> >>))

EmptyRxLine == Json(Dict(<< <<"_date", Str("2024-01-01T00:00:00")>>,
                            <<"deviceName", Str("d2")>>,
                            <<"rxInfo", List(<<>>)>>,
                            <<"object", Dict(<< <<"humidity", Num(40)>> >>)>> >>))

ScalarRxLine == Json(Dict(<< <<"_date", Str("2024-01-01T00:00:00")>>,
                             <<"deviceName", Str("d3")>>,
                             <<"rxInfo", Num(5)>> >>))

\* the sample lines a file is made of, by name
SampleNames == {"good", "blank", "garbage", "emptyrx", "scalarrx"}

Line(name) == CASE name = "good"     -> GoodLine
                [] name = "blank"    -> Blank
                [] name = "garbage"  -> Garbage
                [] name = "emptyrx"  -> EmptyRxLine
                [] name = "scalarrx" -> ScalarRxLine

(***************************************************************************)
(* parse_sensor_record: the row of a line, or None when json.loads or any  *)
(* of the accesses raises.                                                 *)
(***************************************************************************)
\* rx_info = data.get('rxInfo', [{}])[0] evaluates without raising
\* (a non-empty str also has an element 0, which then fails at .get)
SubscriptOk(x) == \/ x.t = "list" /\ Len(x.v) > 0
                  \/ x.t = "str" /\ x.v # ""

\* data.get('_timestamp', 0) / 1000 evaluates without raising
DivisionOk(x) == x.t \in {"num", "bool"}

Millis(x) == IF x.t = "bool" THEN (IF x.v THEN 1 ELSE 0) ELSE x.v

\* variant: the time is the _date field, with no fallback to the epoch field
TimestampNoFallback(data) == get(data, "_date", None)

\* lines 65-68
Timestamp(data) ==
    LET timestamp == get(data, "_date", None)
    IN  IF Truthy(timestamp) THEN timestamp
        ELSE Str(isoformat(Millis(get(data, "_timestamp", Num(0)))))

TimestampRaises(data) ==
    /\ ~Truthy(get(data, "_date", None))
    /\ ~DivisionOk(get(data, "_timestamp", Num(0)))

\* some statement of the try block raises an exception other than
\* JSONDecodeError (the clause "except Exception")
ProcessingRaises(data) ==
    \/ data.t # "dict"
    \/ TimestampRaises(data)
    \/ ~SubscriptOk(get(data, "rxInfo", List(<<EmptyDict>>)))
    \/ LET rx_info == get(data, "rxInfo", List(<<EmptyDict>>)).v[1]
       IN  \/ get(data, "rxInfo", List(<<EmptyDict>>)).t # "list"
           \/ rx_info.t # "dict"
           \/ get(rx_info, "location", EmptyDict).t # "dict"
    \/ get(data, "_devLocation", EmptyDict).t # "dict"
    \/ get(data, "txInfo", EmptyDict).t # "dict"
    \/ get(data, "object", EmptyDict).t # "dict"

\* the tuple of lines 83-128, by the column names of the insert statement
RowOf(data) ==
    LET dev_location     == get(data, "_devLocation", EmptyDict)
        rx_info          == get(data, "rxInfo", List(<<EmptyDict>>)).v[1]
        gateway_location == get(rx_info, "location", EmptyDict)
        tx_info          == get(data, "txInfo", EmptyDict)
        sensor_obj       == get(data, "object", EmptyDict)
    IN  [ time              |-> Timestamp(data),
          application_name  |-> get(data, "applicationName", None),
          device_name       |-> get(data, "deviceName", None),
          dev_eui           |-> get(data, "devEUI", None),
          dev_latitude      |-> get(dev_location, "latitude", None),
          dev_longitude     |-> get(dev_location, "longitude", None),
          dev_altitude      |-> get(dev_location, "altitude", None),
          dev_place         |-> get(dev_location, "place", None),
          gateway_id        |-> get(rx_info, "gatewayID", None),
          gateway_latitude  |-> get(gateway_location, "latitude", None),
          gateway_longitude |-> get(gateway_location, "longitude", None),
          gateway_altitude  |-> get(gateway_location, "altitude", None),
          rssi              |-> get(rx_info, "rssi", None),
          lora_snr          |-> get(rx_info, "loRaSNR", None),
          frequency         |-> get(tx_info, "frequency", None),
          data_rate         |-> get(tx_info, "dr", None),
          adr               |-> get(data, "adr", None),
          frame_counter     |-> get(data, "fCnt", None),
          f_port            |-> get(data, "fPort", None),
          temperature       |-> get(sensor_obj, "temperature", None),
          humidity          |-> get(sensor_obj, "humidity", None),
          dewpoint          |-> get(sensor_obj, "dewpoint", None),
          vdd               |-> get(sensor_obj, "vdd", None),
          acc_motion        |-> get(sensor_obj, "accMotion", None),
          digital           |-> get(sensor_obj, "digital", None),
          waterleak         |-> get(sensor_obj, "waterleak", None),
          pulse_abs         |-> get(sensor_obj, "pulseAbs", None),
          x                 |-> get(sensor_obj, "x", None),
          y                 |-> get(sensor_obj, "y", None),
          z                 |-> get(sensor_obj, "z", None),
          redundancy        |-> get(data, "_redundancy", None),
          topic             |-> get(data, "_topic", None),
          raw_data          |-> get(data, "data", None),
          raw_object        |-> Str(dumps(sensor_obj)) ]

\* variant: a failing access yields a row of absent columns instead of None
parse_sensor_record_unguarded(line) ==
    IF line.text # "json" THEN None
    ELSE IF ProcessingRaises(line.doc) THEN [t |-> "tuple", v |-> RowOf(EmptyDict)]
    ELSE [t |-> "tuple", v |-> RowOf(line.doc)]

parse_sensor_record(line) ==
    IF line.text # "json" THEN None              \* except json.JSONDecodeError
    ELSE IF ProcessingRaises(line.doc) THEN None \* except Exception
    ELSE [t |-> "tuple", v |-> RowOf(line.doc)]

(***************************************************************************)
(* Events for parse_sensor_record taken alone: an event is described by    *)
(* the form of its _date, _timestamp, object and rxInfo fields.            *)
(***************************************************************************)
DateForms == {"absent", "iso", "empty", "null"}
StampForms == {"absent", "zero", "day", "millis", "null", "text"}
ObjectForms == {"absent", "empty", "temp", "zeros", "other", "scalar"}
RxForms == {"absent", "one", "empty"}

DocForms == [date : DateForms, ts : StampForms, obj : ObjectForms, rx : RxForms]

NoDoc == [date |-> "absent", ts |-> "absent", obj |-> "absent", rx |-> "absent"]

DateField(f) ==
    CASE f = "absent" -> <<>>
      [] f = "iso"    -> << <<"_date", Str("2024-01-01T00:00:00")>> >>
      [] f = "empty"  -> << <<"_date", Str("")>> >>
      [] f = "null"   -> << <<"_date", None>> >>

StampField(f) ==
    CASE f = "absent" -> <<>>
      [] f = "zero"   -> << <<"_timestamp", Num(0)>> >>
      [] f = "day"    -> << <<"_timestamp", Num(86400000)>> >>
      [] f = "millis" -> << <<"_timestamp", Num(1500)>> >>
      [] f = "null"   -> << <<"_timestamp", None>> >>
      [] f = "text"   -> << <<"_timestamp", Str("1500")>> >>

ObjectField(f) ==
    CASE f = "absent" -> <<>>
      [] f = "empty"  -> << <<"object", EmptyDict>> >>
      [] f = "temp"   -> << <<"object", Dict(<< <<"temperature", Num(21)>> >>)>> >>
      [] f = "zeros"  -> << <<"object", Dict(<< <<"temperature", Num(0)>>,
                                                <<"waterleak", Bool(FALSE)>>,
                                                <<"x", Num(0)>> >>)>> >>
      [] f = "other"  -> << <<"object", Dict(<< <<"co2", Num(400)>> >>)>> >>
      [] f = "scalar" -> << <<"object", Num(5)>> >>

RxField(f) ==
    CASE f = "absent" -> <<>>
      [] f = "one"    -> << <<"rxInfo", List(<<GatewayDoc>>)>> >>
      [] f = "empty"  -> << <<"rxInfo", List(<<>>)>> >>

\* the line of an event of the given form
EventLine(f) ==
    Json(Dict(DateField(f.date) \o StampField(f.ts)
              \o << <<"deviceName", Str("d2")>> >>
              \o ObjectField(f.obj) \o RxField(f.rx)))

(***************************************************************************)
(* The sink: rows become visible in sink at commit; txn holds the rows     *)
(* inserted by the connection's open transaction.                          *)
(***************************************************************************)
\* importer.close(), lines 44-50
close(c) == IF c = "open" THEN "closed" ELSE c

\* variant: the rollback leaves the open transaction in place
rollback_keeps(t) == t

\* conn.rollback(): the open transaction is discarded
rollback(t) == <<>>

\* rows present in the sensor_data table before the run
InitialSink == << [line |-> 0, rec |-> parse_sensor_record(GoodLine)] >>

\* the report queries of show_statistics
queries == << "Total records", "Date range", "Unique devices",
              "Unique locations", "Records per device" >>

(***************************************************************************)
(* State.                                                                  *)
(***************************************************************************)
VARIABLES
    file,            \* the lines of the log file, as sample names
    file_exists,     \* log_file_path.exists()
    batch_size,      \* self.batch_size
    skip_errors,     \* the error policy
    conn,            \* self.conn: "none", "open" or "closed"
    pc,              \* position of the run
    line_num,        \* lines read so far
    total_lines,     \* counters of import_data
    imported_lines,
    error_count,
    record,          \* result of the last call of parse_sensor_record
    batch,           \* the batch buffer
    txn,             \* rows of the connection's uncommitted transaction
    sink,            \* committed rows of the table
    summary,         \* how far the import summary was printed
    stats_done,      \* report queries attempted
    stats_errors,    \* report queries that failed
    flushlog,        \* history: the batches handed to execute_batch
    doc,             \* the fields of the event given to parse_sensor_record alone
    prior            \* history: the outcome of the earlier runs over the file

vars == << file, file_exists, batch_size, skip_errors, conn, pc, line_num,
           total_lines, imported_lines, error_count, record, batch, txn,
           sink, summary, stats_done, stats_errors, flushlog, doc, prior >>

config == << file, file_exists, batch_size, skip_errors, doc, prior >>
counters == << total_lines, imported_lines, error_count >>
report == << summary, stats_done, stats_errors >>

Files == UNION { [1..n -> SampleNames] : n \in 0..MaxLines }

\* positions inside the try block of import_data
TryBlock == { "read", "exec", "commit", "except",
              "final_exec", "final_commit", "final_except",
              "summary", "stats" }

Terminal == { "exit_startup", "exit_interrupted", "aborted", "crashed", "done" }

Init ==
    /\ file \in Files
    /\ file_exists \in BOOLEAN
    /\ (file_exists \/ file = <<>>)
    /\ batch_size \in 1..MaxBatch
    /\ skip_errors \in BOOLEAN
    /\ conn = "none"
    /\ pc = "connect"
    /\ line_num = 0
    /\ total_lines = 0
    /\ imported_lines = 0
    /\ error_count = 0
    /\ record = None
    /\ batch = <<>>
    /\ txn = <<>>
    /\ sink = InitialSink
    /\ summary = "none"
    /\ stats_done = 0
    /\ stats_errors = 0
    /\ flushlog = <<>>
    /\ doc = NoDoc
    /\ prior = <<>>

Lines(b) == [i \in 1..Len(b) |-> b[i].line]

(***************************************************************************)
(* main and connect.                                                       *)
(***************************************************************************)
ConnectOk ==
    /\ pc = "connect"
    /\ conn' = "open"
    /\ pc' = "check_file"
    /\ UNCHANGED << config, line_num, counters, record, batch, txn, sink,
                    report, flushlog >>

\* variant: the failure is printed and the run goes on without a connection
ConnectFailContinues ==
    /\ pc = "connect"
    /\ pc' = "check_file"
    /\ UNCHANGED << config, conn, line_num, counters, record, batch, txn,
                    sink, report, flushlog >>

\* connect prints the failure and calls sys.exit(1); close finds no connection
ConnectFail ==
    /\ pc = "connect"
    /\ pc' = "exit_startup"
    /\ UNCHANGED << config, conn, line_num, counters, record, batch, txn,
                    sink, report, flushlog >>

\* import_data, lines 144-146
FileNotFound ==
    /\ pc = "check_file"
    /\ ~file_exists
    /\ pc' = "exit_startup"
    /\ conn' = close(conn)
    /\ UNCHANGED << config, line_num, counters, record, batch, txn, sink,
                    report, flushlog >>

\* import_data, lines 168-178
StartReading ==
    /\ pc = "check_file"
    /\ file_exists
    /\ batch' = <<>>
    /\ total_lines' = 0
    /\ imported_lines' = 0
    /\ error_count' = 0
    /\ pc' = "read"
    /\ UNCHANGED << config, conn, line_num, record, txn, sink, report,
                    flushlog >>

(***************************************************************************)
(* The reading loop, lines 179-206.                                        *)
(***************************************************************************)
\* variant: the flush waits for one row more than the batch size
FlushDueStrict(b) == Len(b) > batch_size

\* line 191
FlushDue(b) == Len(b) >= batch_size

\* variant: the new row is put at the front of the buffer
ReadLinePrepends ==
    /\ pc = "read"
    /\ line_num < Len(file)
    /\ LET line == Line(file[line_num + 1])
           rec  == parse_sensor_record(line)
       IN  /\ line_num' = line_num + 1
           /\ total_lines' = total_lines + 1
           /\ IF strip(line)
              THEN /\ record' = rec
                   /\ IF rec # None
                      THEN /\ batch' = << [line |-> line_num + 1, rec |-> rec] >> \o batch
                           /\ imported_lines' = imported_lines + 1
                           /\ UNCHANGED error_count
                      ELSE /\ error_count' = error_count + 1
                           /\ UNCHANGED << batch, imported_lines >>
              ELSE UNCHANGED << record, batch, imported_lines, error_count >>
           /\ pc' = IF FlushDue(batch') THEN "exec" ELSE "read"
    /\ UNCHANGED << config, conn, txn, sink, report, flushlog >>

ReadLine ==
    /\ pc = "read"
    /\ line_num < Len(file)
    /\ LET line == Line(file[line_num + 1])
           rec  == parse_sensor_record(line)
       IN  /\ line_num' = line_num + 1
           /\ total_lines' = total_lines + 1
           /\ IF strip(line)
              THEN /\ record' = rec
                   /\ IF rec # None
                      THEN /\ batch' = Append(batch, [line |-> line_num + 1, rec |-> rec])
                           /\ imported_lines' = imported_lines + 1
                           /\ UNCHANGED error_count
                      ELSE /\ error_count' = error_count + 1
                           /\ UNCHANGED << batch, imported_lines >>
              ELSE UNCHANGED << record, batch, imported_lines, error_count >>
           /\ pc' = IF FlushDue(batch') THEN "exec" ELSE "read"
    /\ UNCHANGED << config, conn, txn, sink, report, flushlog >>

\* open() or the iteration over the file raises (OSError, UnicodeDecodeError)
ReadError ==
    /\ pc = "read"
    /\ pc' = "fatal"
    /\ UNCHANGED << config, conn, line_num, counters, record, batch, txn,
                    sink, report, flushlog >>

\* variant: the final flush is issued whatever the buffer holds
EndOfFileAlwaysFlushes ==
    /\ pc = "read"
    /\ line_num = Len(file)
    /\ pc' = "final_exec"
    /\ UNCHANGED << config, conn, line_num, counters, record, batch, txn,
                    sink, report, flushlog >>

\* the for loop ends, line 209
EndOfFile ==
    /\ pc = "read"
    /\ line_num = Len(file)
    /\ pc' = IF batch # <<>> THEN "final_exec" ELSE "summary"
    /\ UNCHANGED << config, conn, line_num, counters, record, batch, txn,
                    sink, report, flushlog >>

(***************************************************************************)
(* A flush: execute_batch, commit, and the handler of a failure.  at is    *)
(* "" for the flush of the loop and "final_" for the last one.             *)
(***************************************************************************)
ExecuteOk(at) ==
    /\ pc = at \o "exec"
    /\ txn' = txn \o batch
    /\ flushlog' = Append(flushlog, [lines |-> Lines(batch), status |-> "inflight"])
    /\ pc' = at \o "commit"
    /\ UNCHANGED << config, conn, line_num, counters, record, batch, sink,
                    report >>

\* the insert of row k + 1 fails; the k rows before it are in the transaction
ExecuteFail(at) ==
    /\ pc = at \o "exec"
    /\ \E k \in 0..(Len(batch) - 1) : txn' = txn \o SubSeq(batch, 1, k)
    /\ flushlog' = Append(flushlog, [lines |-> Lines(batch), status |-> "failed"])
    /\ pc' = at \o "except"
    /\ UNCHANGED << config, conn, line_num, counters, record, batch, sink,
                    report >>

SetLast(log, st) == [log EXCEPT ![Len(log)].status = st]

\* variant: a row of a line already present in the table is not inserted again
CommitOkDedup(at) ==
    /\ pc = at \o "commit"
    /\ sink' = sink \o SelectSeq(txn, LAMBDA r :
                         \A i \in 1..Len(sink) : sink[i] # r)
    /\ txn' = <<>>
    /\ flushlog' = SetLast(flushlog, "committed")
    /\ IF at = ""
       THEN batch' = <<>> /\ pc' = "read"
       ELSE UNCHANGED batch /\ pc' = "summary"
    /\ UNCHANGED << config, conn, line_num, counters, record, report >>

CommitOk(at) ==
    /\ pc = at \o "commit"
    /\ sink' = sink \o txn
    /\ txn' = <<>>
    /\ flushlog' = SetLast(flushlog, "committed")
    /\ IF at = ""
       THEN batch' = <<>> /\ pc' = "read"
       ELSE UNCHANGED batch /\ pc' = "summary"
    /\ UNCHANGED << config, conn, line_num, counters, record, report >>

CommitFail(at) ==
    /\ pc = at \o "commit"
    /\ flushlog' = SetLast(flushlog, "failed")
    /\ pc' = at \o "except"
    /\ UNCHANGED << config, conn, line_num, counters, record, batch, txn,
                    sink, report >>

\* variant: the handler never re-raises
FlushErrorContinues(at) ==
    /\ pc = at \o "except"
    /\ txn' = rollback(txn)
    /\ IF at = ""
       THEN batch' = <<>> /\ pc' = "read"
       ELSE UNCHANGED batch /\ pc' = "summary"
    /\ UNCHANGED << config, conn, line_num, counters, record, sink, report,
                    flushlog >>

\* variant: the handler leaves the failed rows in the buffer
FlushErrorKeepsBatch(at) ==
    /\ pc = at \o "except"
    /\ txn' = rollback(txn)
    /\ pc' = IF ~skip_errors THEN "fatal"
             ELSE IF at = "" THEN "read" ELSE "summary"
    /\ UNCHANGED << config, conn, line_num, counters, record, batch, sink,
                    report, flushlog >>

\* variant: the handler takes the rows of the failed batch out of the
\* success counter
FlushErrorUncounts(at) ==
    /\ pc = at \o "except"
    /\ txn' = rollback(txn)
    /\ imported_lines' = imported_lines - Len(batch)
    /\ IF ~skip_errors
       THEN UNCHANGED batch /\ pc' = "fatal"
       ELSE IF at = ""
            THEN batch' = <<>> /\ pc' = "read"
            ELSE UNCHANGED batch /\ pc' = "summary"
    /\ UNCHANGED << config, conn, line_num, total_lines, error_count, record,
                    sink, report, flushlog >>

\* lines 197-202 and 214-218: rollback, then re-raise under the stop policy
FlushError(at) ==
    /\ pc = at \o "except"
    /\ txn' = rollback(txn)
    /\ IF ~skip_errors
       THEN UNCHANGED batch /\ pc' = "fatal"
       ELSE IF at = ""
            THEN batch' = <<>> /\ pc' = "read"
            ELSE UNCHANGED batch /\ pc' = "summary"
    /\ UNCHANGED << config, conn, line_num, counters, record, sink, report,
                    flushlog >>

InsertBatchOk == ExecuteOk("")
InsertBatchFail == ExecuteFail("")
CommitBatchOk == CommitOk("")
CommitBatchFail == CommitFail("")
BatchError == FlushError("")
InsertFinalOk == ExecuteOk("final_")
InsertFinalFail == ExecuteFail("final_")
CommitFinalOk == CommitOk("final_")
CommitFinalFail == CommitFail("final_")
FinalError == FlushError("final_")

(***************************************************************************)
(* The summary (lines 220-226) and show_statistics.                        *)
(***************************************************************************)
\* the success rate divides by total_lines
PrintSummary ==
    /\ pc = "summary"
    /\ IF total_lines = 0
       THEN summary' = "counts" /\ pc' = "fatal"
       ELSE summary' = "full" /\ pc' = "stats"
    /\ UNCHANGED << config, conn, line_num, counters, record, batch, txn,
                    sink, stats_done, stats_errors, flushlog >>

QueryOk ==
    /\ pc = "stats"
    /\ stats_done < Len(queries)
    /\ stats_done' = stats_done + 1
    /\ UNCHANGED << config, conn, pc, line_num, counters, record, batch, txn,
                    sink, summary, stats_errors, flushlog >>

\* variant: the failure of a query escapes show_statistics
QueryFailRaises ==
    /\ pc = "stats"
    /\ stats_done < Len(queries)
    /\ stats_done' = stats_done + 1
    /\ stats_errors' = stats_errors + 1
    /\ pc' = "fatal"
    /\ UNCHANGED << config, conn, line_num, counters, record, batch, txn,
                    sink, summary, flushlog >>

\* the query raises; the error is printed and the loop goes on
QueryFail ==
    /\ pc = "stats"
    /\ stats_done < Len(queries)
    /\ stats_done' = stats_done + 1
    /\ stats_errors' = stats_errors + 1
    /\ UNCHANGED << config, conn, pc, line_num, counters, record, batch, txn,
                    sink, summary, flushlog >>

\* import_data returns; main closes the connection and reports completion
Finish ==
    /\ pc = "stats"
    /\ stats_done = Len(queries)
    /\ pc' = "done"
    /\ conn' = close(conn)
    /\ txn' = <<>>
    /\ UNCHANGED << config, line_num, counters, record, batch, sink, report,
                    flushlog >>

(***************************************************************************)
(* The handlers of import_data (lines 231-238) and of main (349-356).      *)
(***************************************************************************)
\* except KeyboardInterrupt: rollback and sys.exit(1)
Interrupt ==
    /\ pc \in TryBlock
    /\ txn' = rollback(txn)
    /\ pc' = "exit_interrupted"
    /\ conn' = close(conn)
    /\ UNCHANGED << config, line_num, counters, record, batch, sink, report,
                    flushlog >>

\* except Exception: rollback and re-raise; main prints and exits with 1
FatalError ==
    /\ pc = "fatal"
    /\ txn' = rollback(txn)
    /\ pc' = "aborted"
    /\ conn' = close(conn)
    /\ UNCHANGED << config, line_num, counters, record, batch, sink, report,
                    flushlog >>

\* an interrupt inside the handler is caught by no clause; the connection
\* is closed by main's finally and the open transaction is lost with it
InterruptInHandler ==
    /\ pc = "fatal"
    /\ txn' = <<>>
    /\ pc' = "crashed"
    /\ conn' = close(conn)
    /\ UNCHANGED << config, line_num, counters, record, batch, sink, report,
                    flushlog >>

Next ==
    \/ ConnectOk \/ ConnectFail \/ FileNotFound \/ StartReading
    \/ ReadLine \/ ReadError \/ EndOfFile
    \/ InsertBatchOk \/ InsertBatchFail \/ CommitBatchOk \/ CommitBatchFail
    \/ BatchError
    \/ InsertFinalOk \/ InsertFinalFail \/ CommitFinalOk \/ CommitFinalFail
    \/ FinalError
    \/ PrintSummary \/ QueryOk \/ QueryFail \/ Finish
    \/ Interrupt \/ FatalError \/ InterruptInHandler

Spec == Init /\ [][Next]_vars

(***************************************************************************)
(* parse_sensor_record taken alone: one call on an event of any form.      *)
(***************************************************************************)
InitParse ==
    /\ file = <<>>
    /\ file_exists = TRUE
    /\ batch_size = 1
    /\ skip_errors = TRUE
    /\ conn = "none"
    /\ pc = "parse"
    /\ line_num = 0
    /\ total_lines = 0
    /\ imported_lines = 0
    /\ error_count = 0
    /\ record = None
    /\ batch = <<>>
    /\ txn = <<>>
    /\ sink = InitialSink
    /\ summary = "none"
    /\ stats_done = 0
    /\ stats_errors = 0
    /\ flushlog = <<>>
    /\ doc \in DocForms
    /\ prior = <<>>

\* record = self.parse_sensor_record(line), line 183
ParseRecord ==
    /\ pc = "parse"
    /\ record' = parse_sensor_record(EventLine(doc))
    /\ pc' = "parsed"
    /\ UNCHANGED << config, conn, line_num, counters, batch, txn, sink,
                    report, flushlog >>

NextParse == ParseRecord

SpecParse == InitParse /\ [][NextParse]_vars

TypeOK ==
    /\ pc \in TryBlock \cup Terminal
             \cup {"connect", "check_file", "fatal", "parse", "parsed"}
    /\ conn \in {"none", "open", "closed"}
    /\ line_num \in 0..Len(file)
    /\ summary \in {"none", "counts", "full"}

(***************************************************************************)
(* Helpers of the properties.                                              *)
(***************************************************************************)
RECURSIVE CommittedLines(_)
\* the lines of the batches of a flush log whose commit succeeded, in order
CommittedLines(log) ==
    IF log = <<>> THEN <<>>
    ELSE (IF Head(log).status = "committed" THEN Head(log).lines ELSE <<>>)
         \o CommittedLines(Tail(log))

Range(s) == { s[i] : i \in 1..Len(s) }

Ceil(n, d) == (n + d - 1) \div d

NonBlank == Cardinality({ i \in 1..Len(file) : file[i] # "blank" })

NoWriteFailure == \A i \in 1..Len(flushlog) : flushlog[i].status = "committed"

SomeWriteFailed == \E i \in 1..Len(flushlog) : flushlog[i].status = "failed"

Flushing == { "exec", "commit", "except",
              "final_exec", "final_commit", "final_except" }

GatewayAbsent(row) ==
    /\ row.gateway_id = None
    /\ row.gateway_latitude = None
    /\ row.gateway_longitude = None
    /\ row.gateway_altitude = None
    /\ row.rssi = None
    /\ row.lora_snr = None

\* the step that reads the next line, when that line is one of kinds
Reads(kinds) ==
    /\ pc = "read"
    /\ line_num' = line_num + 1
    /\ file[line_num'] \in kinds

(***************************************************************************)
(* C1. Batch atomicity: in every reachable state the rows of the table are *)
(* the rows it held before the run followed by the rows of the batches     *)
(* whose commit succeeded, each in full; no row of a batch whose write or  *)
(* commit failed is in the table.                                          *)
(***************************************************************************)
C1_BatchAtomicity ==
    /\ Lines(sink) = Lines(InitialSink) \o CommittedLines(flushlog)
    /\ \A i \in 1..Len(flushlog) :
          flushlog[i].status # "committed"
             => Range(flushlog[i].lines) \cap Range(Lines(sink)) = {}

C1_Witness ==
    /\ pc = "done"
    /\ \E i, j \in 1..Len(flushlog) :
          /\ i < j
          /\ flushlog[i].status = "failed"
          /\ Len(flushlog[i].lines) > 1
          /\ flushlog[j].status = "committed"

(***************************************************************************)
(* C2 as stated: a run over N input lines without decode or write failure  *)
(* ends with ceil(N / B) flushes and N new rows in the table.              *)
(***************************************************************************)
C2_Original ==
    (pc = "done" /\ error_count = 0 /\ NoWriteFailure)
       => /\ Len(flushlog) = Ceil(Len(file), batch_size)
          /\ Len(sink) - Len(InitialSink) = Len(file)

(***************************************************************************)
(* C2. A run over a file with N non-blank lines, none of which fails to    *)
(* decode, and without write failure ends with ceil(N / B) flushes and N   *)
(* new rows in the table.                                                  *)
(***************************************************************************)
C2_FlushCount ==
    (pc = "done" /\ error_count = 0 /\ NoWriteFailure)
       => /\ Len(flushlog) = Ceil(NonBlank, batch_size)
          /\ Len(sink) - Len(InitialSink) = NonBlank

C2_Witness ==
    /\ pc = "done" /\ error_count = 0 /\ NoWriteFailure
    /\ batch_size = 2
    /\ NonBlank = 3
    /\ Len(flushlog) = 2

(***************************************************************************)
(* C3. Reading a line whose rxInfo is the empty list yields a row with the *)
(* six gateway columns absent and counts the line as a success.            *)
(***************************************************************************)
C3_EmptyRxInfoSucceeds ==
    [][ Reads({"emptyrx"})
          => /\ record' # None
             /\ GatewayAbsent(record'.v)
             /\ imported_lines' = imported_lines + 1
             /\ error_count' = error_count ]_vars

(***************************************************************************)
(* C4. A run that got past the startup checks has printed the complete     *)
(* summary (counts and success rate) when it ends, however it ends.        *)
(***************************************************************************)
C4_SummaryAlways ==
    pc \in {"done", "aborted", "exit_interrupted"} => summary = "full"

(***************************************************************************)
(* C5. Under the skip policy no step taken while reading or flushing       *)
(* raises into the fatal handler.                                          *)
(***************************************************************************)
C5_NoAbortUnderSkip ==
    [][ (skip_errors /\ pc \in {"read"} \cup Flushing) => pc' # "fatal" ]_vars

C7_StopOnFirstWriteFailure ==
    /\ []((~skip_errors /\ SomeWriteFailed)
            => /\ flushlog[Len(flushlog)].status = "failed"
               /\ \A i \in 1..(Len(flushlog) - 1) : flushlog[i].status = "committed"
               /\ pc \in {"except", "final_except", "fatal", "aborted",
                          "exit_interrupted", "crashed"}
               /\ (pc \notin {"except", "final_except"} => txn = <<>>))
    /\ [][ (~skip_errors /\ SomeWriteFailed)
             => /\ line_num' = line_num
                /\ counters' = counters
                /\ flushlog' = flushlog
                /\ sink' = sink ]_vars

C7_Witness ==
    /\ pc = "aborted"
    /\ ~skip_errors
    /\ Len(flushlog) = 2
    /\ flushlog[1].status = "committed"
    /\ flushlog[2].status = "failed"
    /\ line_num < Len(file)
    /\ Lines(sink) = Lines(InitialSink) \o flushlog[1].lines

(***************************************************************************)
(* C8. A run ended by a user interrupt leaves no uncommitted row behind,   *)
(* keeps every committed batch, and has reported the summary.              *)
(***************************************************************************)
C8_InterruptReportsSummary ==
    pc = "exit_interrupted"
       => /\ txn = <<>>
          /\ Lines(sink) = Lines(InitialSink) \o CommittedLines(flushlog)
          /\ summary # "none"

(***************************************************************************)
(* C9. A failing report query is counted, the loop goes on with the next   *)
(* query, and no step of show_statistics changes the table or a counter;   *)
(* a run that reached the report ends done with every query attempted.     *)
(***************************************************************************)
C9_StatsFailureHarmless ==
    /\ [][ pc = "stats"
             => /\ sink' = sink
                /\ counters' = counters
                /\ flushlog' = flushlog
                /\ pc' \in {"stats", "done", "exit_interrupted"}
                /\ (stats_errors' # stats_errors
                      => pc' = "stats" /\ stats_done' = stats_done + 1) ]_vars
    /\ [](pc = "done" => stats_done = Len(queries) /\ summary = "full")

C9_Witness ==
    /\ pc = "done"
    /\ stats_errors = Len(queries)
    /\ Len(sink) > Len(InitialSink)

(***************************************************************************)
(* C10. While there is no connection, or when the source file does not     *)
(* exist, no line has been read, no counter changed, no batch written and  *)
(* the table is as it was; the run is at startup or has exited.            *)
(***************************************************************************)
C10_StartupErrors ==
    (conn = "none" \/ ~file_exists)
       => /\ pc \in {"connect", "check_file", "exit_startup"}
          /\ line_num = 0
          /\ total_lines = 0 /\ imported_lines = 0 /\ error_count = 0
          /\ batch = <<>> /\ txn = <<>> /\ flushlog = <<>>
          /\ sink = InitialSink

C10_Witness ==
    /\ pc = "exit_startup"
    /\ conn = "none"
    /\ Len(file) > 0

(***************************************************************************)
(* Helpers of the properties of parse_sensor_record.                       *)
(***************************************************************************)
\* the isoformat text expected for each form of the _timestamp field
ExpectedEpoch(f) ==
    CASE f \in {"absent", "zero"} -> "1970-01-01T00:00:00"
      [] f = "day"                -> "1970-01-02T00:00:00"
      [] f = "millis"             -> "1970-01-01T00:00:01.500000"

\* the event of the form has nothing but the timestamp that can raise
OtherFieldsFine == doc.obj # "scalar" /\ doc.rx # "empty"

ReadingsAbsent(row) ==
    /\ row.temperature = None /\ row.humidity = None /\ row.dewpoint = None
    /\ row.vdd = None /\ row.acc_motion = None /\ row.digital = None
    /\ row.waterleak = None /\ row.pulse_abs = None
    /\ row.x = None /\ row.y = None /\ row.z = None

(***************************************************************************)
(* C11 as stated: whenever the _date field is present the time column is   *)
(* its value; when it is absent the time is the isoformat of _timestamp,   *)
(* and of 0 when that is absent too, and the record is accepted.           *)
(***************************************************************************)
C11_Original ==
    pc = "parsed"
       => /\ (doc.date # "absent" /\ record # None)
                => record.v.time = DateField(doc.date)[1][2]
          /\ (doc.date = "absent" /\ record # None)
                => record.v.time = Str(ExpectedEpoch(doc.ts))
          /\ (doc.date = "absent" /\ doc.ts = "absent" /\ OtherFieldsFine)
                => record # None

(***************************************************************************)
(* C11. When the _date field is present with a truthy value (not null,     *)
(* not the empty string) the time column is that value; when it is absent, *)
(* null or empty the time is the isoformat of the _timestamp field, and of *)
(* 0 when that field is absent, in which case the record is accepted and   *)
(* dated 1970-01-01T00:00:00.                                              *)
(***************************************************************************)
C11_TimestampResolution ==
    pc = "parsed"
       => /\ (doc.date = "iso" /\ OtherFieldsFine)
                => record # None /\ record.v.time = Str("2024-01-01T00:00:00")
          /\ (doc.date # "iso" /\ record # None)
                => record.v.time = Str(ExpectedEpoch(doc.ts))
          /\ (doc.date # "iso" /\ doc.ts = "absent" /\ OtherFieldsFine)
                => record # None

C11_Witness ==
    /\ pc = "parsed"
    /\ doc.date = "absent" /\ doc.ts = "absent"
    /\ record # None
    /\ record.v.time = Str("1970-01-01T00:00:00")
    /\ record.v.device_name = Str("d2")

(***************************************************************************)
(* C12. A decodable event without the object field yields a row whose      *)
(* raw_object is the text of the empty mapping and whose eleven reading    *)
(* columns are absent; a reading missing from a present object, and the    *)
(* gateway columns of an event without rxInfo, are absent too, never 0.    *)
(***************************************************************************)
C12_MissingFieldsAbsent ==
    (pc = "parsed" /\ record # None)
       => /\ doc.obj = "absent"
                => record.v.raw_object = Str("{}") /\ ReadingsAbsent(record.v)
          /\ doc.obj \in {"empty", "other"} => ReadingsAbsent(record.v)
          /\ doc.obj = "temp"
                => /\ record.v.temperature = Num(21)
                   /\ record.v.humidity = None
                   /\ record.v.raw_object = Str("{\"temperature\": 21}")
          /\ doc.obj = "zeros"
                => record.v.temperature = Num(0) /\ record.v.humidity = None
          /\ doc.rx = "absent" => GatewayAbsent(record.v)
          /\ record.v.application_name = None
          /\ record.v.dev_latitude = None
          /\ record.v.frequency = None
          /\ record.v.frame_counter = None

C12_Witness ==
    /\ pc = "parsed"
    /\ doc.obj = "absent"
    /\ doc.date = "iso"
    /\ record # None
    /\ record.v.raw_object = Str("{}")
    /\ record.v.temperature = None

(***************************************************************************)
(* A second run of the program over the same file, after a completed one.  *)
(* The table keeps its rows; everything else starts afresh.                *)
(***************************************************************************)
Rerun ==
    /\ pc = "done"
    /\ prior = <<>>
    /\ prior' = << [rows |-> Len(sink), errors |-> error_count,
                    clean |-> NoWriteFailure] >>
    /\ conn' = "none"
    /\ pc' = "connect"
    /\ line_num' = 0
    /\ total_lines' = 0
    /\ imported_lines' = 0
    /\ error_count' = 0
    /\ record' = None
    /\ batch' = <<>>
    /\ txn' = <<>>
    /\ summary' = "none"
    /\ stats_done' = 0
    /\ stats_errors' = 0
    /\ flushlog' = <<>>
    /\ UNCHANGED << file, file_exists, batch_size, skip_errors, doc, sink >>

NextRerun == Next \/ Rerun

SpecRerun == Init /\ [][NextRerun]_vars

(***************************************************************************)
(* C13. When two runs over the same file both complete without decode or   *)
(* write failure, the second leaves the table with twice the new rows of   *)
(* the first: nothing is deduplicated.                                     *)
(***************************************************************************)
C13_ReimportDoubles ==
    (/\ pc = "done" /\ prior # <<>>
     /\ prior[1].clean /\ prior[1].errors = 0
     /\ error_count = 0 /\ NoWriteFailure)
       => Len(sink) - Len(InitialSink) = 2 * (prior[1].rows - Len(InitialSink))

C13_Witness ==
    /\ pc = "done" /\ prior # <<>>
    /\ prior[1].clean /\ prior[1].errors = 0
    /\ error_count = 0 /\ NoWriteFailure
    /\ batch_size = 2
    /\ prior[1].rows - Len(InitialSink) = 3
    /\ Len(sink) - Len(InitialSink) = 6

(***************************************************************************)
(* Helpers of the properties of the buffer and the counters.               *)
(***************************************************************************)
\* the lines whose rows were handed to execute_batch so far
FlushedLines == UNION { Range(flushlog[i].lines) : i \in 1..Len(flushlog) }

RECURSIVE FailedSize(_)
\* the number of rows of the batches of a flush log that failed
FailedSize(log) ==
    IF log = <<>> THEN 0
    ELSE (IF Head(log).status = "failed" THEN Len(Head(log).lines) ELSE 0)
         + FailedSize(Tail(log))

\* the number of rows handed to execute_batch and not yet committed
InflightSize(log) ==
    IF log # <<>> /\ log[Len(log)].status = "inflight"
    THEN Len(log[Len(log)].lines) ELSE 0

\* the lines read so far that are of one of the kinds
Seen(kinds) == { i \in 1..line_num : file[i] \in kinds }

(***************************************************************************)
(* C14. Whenever the loop is about to read a line, no row of the buffer    *)
(* has been handed to the sink; a flush of the loop, committed or failed,  *)
(* returns to reading with the buffer empty; no line's row is handed to    *)
(* the sink in two flushes.                                                *)
(***************************************************************************)
C14_BufferClearedAfterFlush ==
    /\ [](pc = "read" => Range(Lines(batch)) \cap FlushedLines = {})
    /\ [](\A i, j \in 1..Len(flushlog) :
             i # j => Range(flushlog[i].lines) \cap Range(flushlog[j].lines) = {})
    /\ [][ (pc \in {"commit", "except"} /\ pc' = "read") => batch' = <<>> ]_vars

C14_Witness ==
    /\ pc = "read"
    /\ skip_errors
    /\ batch = <<>>
    /\ line_num < Len(file)
    /\ Len(flushlog) = 1
    /\ flushlog[1].status = "failed"
    /\ Len(flushlog[1].lines) = 2

(***************************************************************************)
(* C15. No step of a flush changes a counter; the success counter is the   *)
(* number of lines extracted so far, and once the input is exhausted and   *)
(* flushed it equals the rows the run committed plus the sizes of the      *)
(* batches that failed; in every state it is the committed rows plus the   *)
(* rows of the failed batches, of the batch in flight and of the buffer.   *)
(***************************************************************************)
C15_FailedFlushKeepsCounters ==
    /\ [][ (pc \in Flushing) => UNCHANGED counters ]_vars
    /\ [](imported_lines = Cardinality(Seen({"good"})))
    /\ [](pc \in {"summary", "stats", "done"}
            => imported_lines
                 = (Len(sink) - Len(InitialSink)) + FailedSize(flushlog))
    /\ [](imported_lines
            = (Len(sink) - Len(InitialSink)) + FailedSize(flushlog)
              + InflightSize(flushlog)
              + Cardinality(Range(Lines(batch)) \ FlushedLines))

C15_Witness ==
    /\ pc = "done"
    /\ imported_lines = 3
    /\ Len(sink) - Len(InitialSink) = 1
    /\ FailedSize(flushlog) = 2

(***************************************************************************)
(* C16. The buffer never holds more than batch_size rows.                  *)
(***************************************************************************)
C16_BufferBounded == Len(batch) <= batch_size

C16_Witness ==
    /\ Len(batch) = batch_size
    /\ batch_size = 2
    /\ pc = "except"
    /\ error_count > 0
    /\ SomeWriteFailed

(***************************************************************************)
(* C17. No step of a run lowers the total, the success or the error        *)
(* counter.                                                                *)
(***************************************************************************)
C17_CountersMonotonic ==
    [][ /\ total_lines' >= total_lines
        /\ imported_lines' >= imported_lines
        /\ error_count' >= error_count ]_vars

C17_Witness ==
    /\ pc = "aborted"
    /\ SomeWriteFailed
    /\ total_lines = 3
    /\ imported_lines = 2
    /\ error_count = 1

\* the line numbers of a batch increase
Ordered(l) == \A i, j \in 1..Len(l) : i < j => l[i] < l[j]

\* a batch skips no extracted line between its first and its last
Contiguous(l) ==
    l # <<>> => \A n \in l[1]..l[Len(l)] : file[n] = "good" => n \in Range(l)

(***************************************************************************)
(* C18. The rows of the buffer, of the open transaction and of every batch *)
(* handed to the sink are in increasing line order, and a batch holds      *)
(* every extracted line between its first and its last.                    *)
(***************************************************************************)
C18_BatchInLineOrder ==
    /\ Ordered(Lines(batch)) /\ Contiguous(Lines(batch))
    /\ Ordered(Lines(txn))
    /\ \A i \in 1..Len(flushlog) :
          Ordered(flushlog[i].lines) /\ Contiguous(flushlog[i].lines)

C18_Witness ==
    /\ pc = "done"
    /\ \E i \in 1..Len(flushlog) :
          /\ flushlog[i].lines = <<1, 3>>
          /\ flushlog[i].status = "committed"
    /\ Lines(sink) = Lines(InitialSink) \o <<1, 3>>

(***************************************************************************)
(* C19. The total counter is the number of lines read and equals the       *)
(* success counter plus the error counter plus the blank lines read; the   *)
(* step that reads a blank line adds one to the total and leaves the       *)
(* other counters, the buffer and the last record alone.                   *)
(***************************************************************************)
C19_Accounting ==
    /\ [](total_lines = line_num)
    /\ [](total_lines
            = imported_lines + error_count + Cardinality(Seen({"blank"})))
    /\ [][ Reads({"blank"})
             => /\ total_lines' = total_lines + 1
                /\ UNCHANGED << imported_lines, error_count, batch, record >> ]_vars

C19_Witness ==
    /\ pc = "done"
    /\ total_lines = 3
    /\ imported_lines = 1
    /\ error_count = 1
    /\ Cardinality(Seen({"blank"})) = 1

(***************************************************************************)
(* C20. Every batch handed to the sink holds between 1 and batch_size      *)
(* rows; the loop flushes exactly when the buffer has reached batch_size   *)
(* rows, the final flush is issued exactly when the buffer is not empty    *)
(* at the end of the input, and in a completed run under the skip policy   *)
(* every extracted line is in exactly one batch handed to the sink.        *)
(***************************************************************************)
C20_FlushSizes ==
    /\ [](\A i \in 1..Len(flushlog) :
             1 <= Len(flushlog[i].lines) /\ Len(flushlog[i].lines) <= batch_size)
    /\ [](pc \in {"exec", "commit", "except"} => Len(batch) = batch_size)
    /\ [](pc \in {"final_exec", "final_commit", "final_except"}
             => 1 <= Len(batch) /\ Len(batch) < batch_size)
    /\ [](pc = "read" => Len(batch) < batch_size)
    /\ [][ (pc = "read" /\ line_num' = line_num + 1)
             => (pc' = "exec" <=> Len(batch') = batch_size) ]_vars
    /\ [][ (pc = "read" /\ pc' \in {"final_exec", "summary"})
             => (pc' = "final_exec" <=> batch # <<>>) ]_vars
    /\ []((pc = "done" /\ skip_errors)
             => \A n \in Seen({"good"}) :
                   Cardinality({ i \in 1..Len(flushlog) :
                                   n \in Range(flushlog[i].lines) }) = 1)

C20_Witness ==
    /\ pc = "done"
    /\ skip_errors
    /\ batch_size = 2
    /\ Len(flushlog) = 2
    /\ Len(flushlog[1].lines) = 2 /\ flushlog[1].status = "failed"
    /\ Len(flushlog[2].lines) = 1 /\ flushlog[2].status = "committed"

====
